---- MODULE Spec2Model ----
(***************************************************************************)
(* Model of api.Session (src/api/session.go): the two-phase endpoint       *)
(* binding, the four protocol operations Init, Announce, GetPlayer and     *)
(* GetInventory, and the envelope each of them hands to the transport.     *)
(*                                                                         *)
(* A Session is used by one caller at a time (the code has no              *)
(* synchronisation), so every operation is one atomic action.  What an     *)
(* operation did, in order, is recorded in lastCall.events; what it handed *)
(* to the transport is recorded in lastCall.sent.                          *)
(***************************************************************************)
EXTENDS Integers, Sequences, FiniteSets, TLC

\* ------------------------------------------------------------------ bounds

\* Number of operations a caller performs on one Session.
MaxCalls == 3

\* --------------------------------------------------------------- constants

defaultURL == "https://pgorelease.nianticlabs.com/plfe/rpc"
downloadSettingsHash == "05daf51635c82611d1aac95c0b051d3ec088a930"
cellIDLevel == 15

\* The fixed fields of every RequestEnvelope (Session.Call).
EnvelopeRequestId == "8145806132888207460"
EnvelopeStatusCode == 2
EnvelopeUnknown12 == 989
AuthUnknown2 == 59

\* ------------------------------------------------------------ value spaces

\* Go's nil error, and the error values the collaborators can produce.
NoErr == [type |-> "nil", msg |-> ""]
LoginErrors ==
  { [type |-> "auth", msg |-> "invalid credentials"],
    [type |-> "auth", msg |-> "login timed out"] }
TransportErrors ==
  { [type |-> "rpc", msg |-> "connection refused"],
    [type |-> "rpc", msg |-> "unexpected http status"] }

\* URL fragments a server assigns (ResponseEnvelope.ApiUrl); "" is "none".
Fragments == {"abc123", "pgorelease.nianticlabs.com/plfe"}
StatusCodes == {1, 53, 102}
ReturnsChoices ==
  { <<>>, <<"payload_a">>,
    <<"payload_b", "payload_a", "payload_a", "payload_b", "payload_b">> }

\* What time.Now().Unix() can return, in seconds.
Clock == {1469, 1470}

\* Coordinates a Session is constructed with (degrees; altitude in metres).
Locations ==
  { [Lon |-> 2, Lat |-> 40, Alt |-> 35],
    [Lon |-> 0, Lat |-> 0, Alt |-> 0] }

\* A grid of coordinates for the cell indexer, all inside cube face 0.
GridDegrees == {-40, -20, -1, 0, 1, 20, 40}
GridLocations == [Lon : GridDegrees, Lat : GridDegrees, Alt : {0, 35}]

\* The state of the auth.Provider a Session is constructed with.
ProviderStrings == {"ptc"}
Tokens == {"token_1", "token_2"}
NoToken == ""

\* ------------------------------------------------------- responses and data

NilResponse == [nil |-> TRUE]
Responses ==
  [nil : {FALSE}, ApiUrl : Fragments \cup {""}, StatusCode : StatusCodes,
   Returns : ReturnsChoices]

\* rpc.Client.Request: it fails with an error, or succeeds with an envelope.
TransportOutcomes ==
  [response : {NilResponse}, err : TransportErrors]
    \cup [response : Responses, err : {NoErr}]

\* A nil *protos.XResponse, and proto.Unmarshal of a payload into a fresh
\* message of type typ (whose error the callers ignore).
NilData == [type |-> "nil", payload |-> ""]
Unmarshal(payload, typ) == [type |-> typ, payload |-> payload]

\* proto.Marshal of a request message: its type and its fields.
Marshal(typ, fields) == [message |-> typ, fields |-> fields]
NoMessage == [message |-> "", fields |-> <<>>]

Request(requestType, requestMessage) ==
  [RequestType |-> requestType, RequestMessage |-> requestMessage]

generateRequests == <<>>

\* ------------------------------------------------------------ cell indexer

\* The leaf cell of a coordinate, as (face, i, j) with i and j in 0..2^30-1.
\* Face 0 is taken to span 90 degrees each way around (0, 0), at 11930464
\* leaf cells (2^30 / 90) a degree; the coordinates of Locations and
\* GridLocations all lie inside it.
CellIDFromLatLng(lat, lon) ==
  [face |-> 0, i |-> (lon + 45) * 11930464, j |-> (lat + 45) * 11930464,
   level |-> 30]

\* The width in leaf cells of a cell at a level (leaves are at level 30).
CellSize(level) == 2 ^ (30 - level)

Parent(cell, level) ==
  [cell EXCEPT !.i = (cell.i \div CellSize(level)) * CellSize(level),
               !.j = (cell.j \div CellSize(level)) * CellSize(level),
               !.level = level]

\* s2.CellID.EdgeNeighbors: the four cells across the edges, in the order
\* down, right, up, left.
EdgeNeighbors(cell) ==
  << [cell EXCEPT !.j = cell.j - CellSize(cell.level)],
     [cell EXCEPT !.i = cell.i + CellSize(cell.level)],
     [cell EXCEPT !.j = cell.j + CellSize(cell.level)],
     [cell EXCEPT !.i = cell.i - CellSize(cell.level)] >>

\* getCellIDs taking the leaf cell of the coordinate for the origin.
getCellIDs_NoParent(location) ==
  LET origin == CellIDFromLatLng(location.Lat, location.Lon)
  IN  <<origin>> \o EdgeNeighbors(origin)

getCellIDs(location) ==
  LET origin == Parent(CellIDFromLatLng(location.Lat, location.Lon), cellIDLevel)
  IN  <<origin>> \o EdgeNeighbors(origin)

\* ----------------------------------------------------------------- session

VARIABLES
  s,          \* the Session: location, url, rpc, provider, debug
  provider,   \* the auth.Provider s.provider refers to
  lastCall,   \* the most recent operation: its inputs, steps and result
  nCalls,     \* operations performed so far
  nWrites,    \* writes of s.url so far
  assigned,   \* the fragments successful Inits have been assigned so far
  lastFragment, \* the fragment assigned by the most recent successful Init
  panicked    \* the calling goroutine is unwinding from a runtime panic

vars == <<s, provider, lastCall, nCalls, nWrites, assigned, lastFragment, panicked>>

NewSession(prov, location, debug) ==
  [location |-> location, url |-> "", rpc |-> "rpc.Client",
   provider |-> prov, debug |-> debug]

\* setURL without the "/rpc" path.
setURL_NoPath(sess, urlToken) ==
  [sess EXCEPT !.url = "https://" \o urlToken]

setURL(sess, urlToken) ==
  [sess EXCEPT !.url = "https://" \o urlToken \o "/rpc"]

getURL(sess) ==
  IF sess.url # "" THEN sess.url ELSE defaultURL

\* auth.Provider.Login: a failure leaves the provider as it was, a success
\* makes it hold the access token the login obtained.
Login(prov, loginErr, token) ==
  IF loginErr # NoErr THEN prov ELSE [prov EXCEPT !.AccessToken = token]

\* The envelope with longitude and latitude exchanged.
RequestEnvelope_SwapLatLon(sess, prov, requests) ==
  [RequestId |-> EnvelopeRequestId,
   StatusCode |-> EnvelopeStatusCode,
   Unknown12 |-> EnvelopeUnknown12,
   Longitude |-> sess.location.Lat,
   Latitude |-> sess.location.Lon,
   Altitude |-> sess.location.Alt,
   AuthInfo |-> [Provider |-> prov.ProviderString,
                 Token |-> [Contents |-> prov.AccessToken,
                            Unknown2 |-> AuthUnknown2]],
   Requests |-> requests]

\* The envelope Session.Call builds around a batch.
RequestEnvelope(sess, prov, requests) ==
  [RequestId |-> EnvelopeRequestId,
   StatusCode |-> EnvelopeStatusCode,
   Unknown12 |-> EnvelopeUnknown12,
   Longitude |-> sess.location.Lon,
   Latitude |-> sess.location.Lat,
   Altitude |-> sess.location.Alt,
   AuthInfo |-> [Provider |-> prov.ProviderString,
                 Token |-> [Contents |-> prov.AccessToken,
                            Unknown2 |-> AuthUnknown2]],
   Requests |-> requests]

\* Call repeating a failed request once.
Call_Retry(sess, prov, requests, out) ==
  LET one == [url |-> getURL(sess),
              envelope |-> RequestEnvelope(sess, prov, requests)]
  IN  [sent |-> IF out.err # NoErr THEN <<one, one>> ELSE <<one>>,
       response |-> out.response,
       err |-> out.err]

\* Session.Call: one rpc.Client.Request to getURL(), whose outcome is out.
Call(sess, prov, requests, out) ==
  [sent |-> <<[url |-> getURL(sess),
               envelope |-> RequestEnvelope(sess, prov, requests)]>>,
   response |-> out.response,
   err |-> out.err]

BindingError ==
  [type |-> "fmt.Errorf",
   msg |-> "Could not initialize session, the service might be down"]

\* &RequestError{}: a fresh value of the api package's own error type.
RequestError == [type |-> "*api.RequestError", msg |-> ""]

\* What an operation leaves behind: the Session, the values it returned (or
\* a panic instead of a return), the requests it sent and its steps in order.
Outcome(sess, data, err, sent, events, panic) ==
  [s |-> sess, data |-> data, err |-> err, sent |-> sent, events |-> events,
   panicked |-> panic]

InitRequests ==
  LET r0 == generateRequests
      r1 == Append(r0, Request("GET_PLAYER", NoMessage))
      r2 == Append(r1, Request("GET_HATCHED_EGGS", NoMessage))
      r3 == Append(r2, Request("GET_INVENTORY", NoMessage))
      r4 == Append(r3, Request("CHECK_AWARDED_BADGES", NoMessage))
      settingsMessage ==
        Marshal("DownloadSettingsMessage", [Hash |-> downloadSettingsHash])
  IN  Append(r4, Request("DOWNLOAD_SETTINGS", settingsMessage))

\* Init binding to whatever the response holds, an empty endpoint included.
SessionInit_NoEmptyCheck(sess, prov, loginErr, out) ==
  IF loginErr # NoErr
  THEN Outcome(sess, NilData, loginErr, <<>>, <<"Login", "return">>, FALSE)
  ELSE LET c == Call(sess, prov, InitRequests, out) IN
       IF c.err # NoErr
       THEN Outcome(sess, NilData, c.err, c.sent,
                    <<"Login", "Request", "return">>, FALSE)
       ELSE Outcome(setURL(sess, c.response.ApiUrl), NilData, NoErr, c.sent,
                    <<"Login", "Request", "setURL", "return">>, FALSE)

\* Init going on to the transport although Login failed.
SessionInit_IgnoreLoginErr(sess, prov, loginErr, out) ==
  LET c == Call(sess, prov, InitRequests, out) IN
  IF c.err # NoErr
  THEN Outcome(sess, NilData, c.err, c.sent,
               <<"Login", "Request", "return">>, FALSE)
  ELSE IF c.response.ApiUrl = ""
  THEN Outcome(sess, NilData, BindingError, c.sent,
               <<"Login", "Request", "return">>, FALSE)
  ELSE Outcome(setURL(sess, c.response.ApiUrl), NilData, NoErr, c.sent,
               <<"Login", "Request", "setURL", "return">>, FALSE)

\* Init storing the assigned endpoint before it checks it for emptiness.
SessionInit_WriteFirst(sess, prov, loginErr, out) ==
  IF loginErr # NoErr
  THEN Outcome(sess, NilData, loginErr, <<>>, <<"Login", "return">>, FALSE)
  ELSE LET c == Call(sess, prov, InitRequests, out) IN
       IF c.err # NoErr
       THEN Outcome(sess, NilData, c.err, c.sent,
                    <<"Login", "Request", "return">>, FALSE)
       ELSE IF c.response.ApiUrl = ""
       THEN Outcome(setURL(sess, c.response.ApiUrl), NilData, BindingError,
                    c.sent, <<"Login", "Request", "setURL", "return">>, FALSE)
       ELSE Outcome(setURL(sess, c.response.ApiUrl), NilData, NoErr, c.sent,
                    <<"Login", "Request", "setURL", "return">>, FALSE)

\* Init dropping the binding when the transport fails.
SessionInit_UnbindOnFailure(sess, prov, loginErr, out) ==
  IF loginErr # NoErr
  THEN Outcome(sess, NilData, loginErr, <<>>, <<"Login", "return">>, FALSE)
  ELSE LET c == Call(sess, prov, InitRequests, out) IN
       IF c.err # NoErr
       THEN Outcome([sess EXCEPT !.url = ""], NilData, c.err, c.sent,
                    <<"Login", "Request", "return">>, FALSE)
       ELSE IF c.response.ApiUrl = ""
       THEN Outcome(sess, NilData, BindingError, c.sent,
                    <<"Login", "Request", "return">>, FALSE)
       ELSE Outcome(setURL(sess, c.response.ApiUrl), NilData, NoErr, c.sent,
                    <<"Login", "Request", "setURL", "return">>, FALSE)

\* Init keeping the endpoint of the first binding.
SessionInit_BindOnce(sess, prov, loginErr, out) ==
  IF loginErr # NoErr
  THEN Outcome(sess, NilData, loginErr, <<>>, <<"Login", "return">>, FALSE)
  ELSE LET c == Call(sess, prov, InitRequests, out) IN
       IF c.err # NoErr
       THEN Outcome(sess, NilData, c.err, c.sent,
                    <<"Login", "Request", "return">>, FALSE)
       ELSE IF c.response.ApiUrl = ""
       THEN Outcome(sess, NilData, BindingError, c.sent,
                    <<"Login", "Request", "return">>, FALSE)
       ELSE IF sess.url # ""
       THEN Outcome(sess, NilData, NoErr, c.sent,
                    <<"Login", "Request", "return">>, FALSE)
       ELSE Outcome(setURL(sess, c.response.ApiUrl), NilData, NoErr, c.sent,
                    <<"Login", "Request", "setURL", "return">>, FALSE)

\* Session.Init, after s.provider.Login() returned loginErr and left the
\* provider as prov.
SessionInit(sess, prov, loginErr, out) ==
  IF loginErr # NoErr
  THEN Outcome(sess, NilData, loginErr, <<>>, <<"Login", "return">>, FALSE)
  ELSE LET c == Call(sess, prov, InitRequests, out) IN
       IF c.err # NoErr
       THEN Outcome(sess, NilData, c.err, c.sent,
                    <<"Login", "Request", "return">>, FALSE)
       ELSE IF c.response.ApiUrl = ""
       THEN Outcome(sess, NilData, BindingError, c.sent,
                    <<"Login", "Request", "return">>, FALSE)
       ELSE Outcome(setURL(sess, c.response.ApiUrl), NilData, NoErr, c.sent,
                    <<"Login", "Request", "setURL", "return">>, FALSE)

\* GetErrorFromStatus: the outcome a response status code stands for.
GetErrorFromStatus(statusCode) ==
  CASE statusCode = 1 -> NoErr
    [] statusCode = 102 -> [type |-> "api.status", msg |-> "invalid auth"]
    [] statusCode = 3 -> [type |-> "api.status", msg |-> "server unavailable"]
    [] OTHER -> [type |-> "api.status", msg |-> "unknown"]

\* Announce asking for the inventory before the hatched eggs.
AnnounceRequests_InventoryFirst(sess, now) ==
  LET cellIDs == getCellIDs(sess.location)
      lastTimestamp == now * 1000
      getMapObjectsMessage ==
        Marshal("GetMapObjectsMessage",
                [CellId |-> cellIDs,
                 SinceTimestampMs |-> [k \in 1..Len(cellIDs) |-> 0],
                 Longitude |-> sess.location.Lon,
                 Latitude |-> sess.location.Lat])
      r0 == generateRequests
      r1 == Append(r0, Request("GET_MAP_OBJECTS", getMapObjectsMessage))
      getInventoryMessage ==
        Marshal("GetInventoryMessage", [LastTimestampMs |-> lastTimestamp])
      r2 == Append(r1, Request("GET_INVENTORY", getInventoryMessage))
      r3 == Append(r2, Request("GET_HATCHED_EGGS", NoMessage))
      r4 == Append(r3, Request("CHECK_AWARDED_BADGES", NoMessage))
      settingsMessage ==
        Marshal("DownloadSettingsMessage", [Hash |-> downloadSettingsHash])
  IN  Append(r4, Request("DOWNLOAD_SETTINGS", settingsMessage))

AnnounceRequests(sess, now) ==
  LET cellIDs == getCellIDs(sess.location)
      lastTimestamp == now * 1000
      getMapObjectsMessage ==
        Marshal("GetMapObjectsMessage",
                [CellId |-> cellIDs,
                 SinceTimestampMs |-> [k \in 1..Len(cellIDs) |-> 0],
                 Longitude |-> sess.location.Lon,
                 Latitude |-> sess.location.Lat])
      r0 == generateRequests
      r1 == Append(r0, Request("GET_MAP_OBJECTS", getMapObjectsMessage))
      r2 == Append(r1, Request("GET_HATCHED_EGGS", NoMessage))
      getInventoryMessage ==
        Marshal("GetInventoryMessage", [LastTimestampMs |-> lastTimestamp])
      r3 == Append(r2, Request("GET_INVENTORY", getInventoryMessage))
      r4 == Append(r3, Request("CHECK_AWARDED_BADGES", NoMessage))
      settingsMessage ==
        Marshal("DownloadSettingsMessage", [Hash |-> downloadSettingsHash])
  IN  Append(r4, Request("DOWNLOAD_SETTINGS", settingsMessage))

\* Decoding response.Returns[0] into a fresh message and returning it with
\* err; indexing an empty Returns is a runtime panic (index out of range).
DecodeFirst(sess, c, typ, err) ==
  IF Len(c.response.Returns) = 0
  THEN Outcome(sess, NilData, NoErr, c.sent, <<"Request", "panic">>, TRUE)
  ELSE Outcome(sess, Unmarshal(c.response.Returns[1], typ), err, c.sent,
               <<"Request", "return">>, FALSE)

\* Announce adopting the endpoint a response carries.
SessionAnnounce_Rebind(sess, prov, now, out) ==
  LET c == Call(sess, prov, AnnounceRequests(sess, now), out)
      r == DecodeFirst(sess, c, "GetMapObjectsResponse",
                       GetErrorFromStatus(c.response.StatusCode))
  IN  IF c.err # NoErr
      THEN Outcome(sess, NilData, RequestError, c.sent,
                   <<"Request", "return">>, FALSE)
      ELSE IF c.response.ApiUrl # "" /\ ~r.panicked
      THEN [r EXCEPT !.s = setURL(sess, c.response.ApiUrl)]
      ELSE r

\* Announce handing the transport's error on as GetPlayer does.
SessionAnnounce_PropagateErr(sess, prov, now, out) ==
  LET c == Call(sess, prov, AnnounceRequests(sess, now), out) IN
  IF c.err # NoErr
  THEN Outcome(sess, NilData, c.err, c.sent, <<"Request", "return">>, FALSE)
  ELSE DecodeFirst(sess, c, "GetMapObjectsResponse",
                   GetErrorFromStatus(c.response.StatusCode))

SessionAnnounce(sess, prov, now, out) ==
  LET c == Call(sess, prov, AnnounceRequests(sess, now), out) IN
  IF c.err # NoErr
  THEN Outcome(sess, NilData, RequestError, c.sent,
               <<"Request", "return">>, FALSE)
  ELSE DecodeFirst(sess, c, "GetMapObjectsResponse",
                   GetErrorFromStatus(c.response.StatusCode))

\* GetPlayer replacing the transport's error as Announce does.
SessionGetPlayer_GenericErr(sess, prov, out) ==
  LET requests == Append(generateRequests, Request("GET_PLAYER", NoMessage))
      c == Call(sess, prov, requests, out)
  IN  IF c.err # NoErr
      THEN Outcome(sess, NilData, RequestError, c.sent,
                   <<"Request", "return">>, FALSE)
      ELSE DecodeFirst(sess, c, "GetPlayerResponse", NoErr)

\* GetPlayer classifying the status code as Announce does.
SessionGetPlayer_Classify(sess, prov, out) ==
  LET requests == Append(generateRequests, Request("GET_PLAYER", NoMessage))
      c == Call(sess, prov, requests, out)
  IN  IF c.err # NoErr
      THEN Outcome(sess, NilData, c.err, c.sent, <<"Request", "return">>, FALSE)
      ELSE DecodeFirst(sess, c, "GetPlayerResponse",
                       GetErrorFromStatus(c.response.StatusCode))

SessionGetPlayer(sess, prov, out) ==
  LET requests == Append(generateRequests, Request("GET_PLAYER", NoMessage))
      c == Call(sess, prov, requests, out)
  IN  IF c.err # NoErr
      THEN Outcome(sess, NilData, c.err, c.sent, <<"Request", "return">>, FALSE)
      ELSE DecodeFirst(sess, c, "GetPlayerResponse", NoErr)

\* GetInventory adopting the endpoint a response carries.
SessionGetInventory_Rebind(sess, prov, out) ==
  LET requests == Append(generateRequests, Request("GET_INVENTORY", NoMessage))
      c == Call(sess, prov, requests, out)
      r == DecodeFirst(sess, c, "GetInventoryResponse", NoErr)
  IN  IF c.err # NoErr
      THEN Outcome(sess, NilData, c.err, c.sent, <<"Request", "return">>, FALSE)
      ELSE IF c.response.ApiUrl # "" /\ ~r.panicked
      THEN [r EXCEPT !.s = setURL(sess, c.response.ApiUrl)]
      ELSE r

SessionGetInventory(sess, prov, out) ==
  LET requests == Append(generateRequests, Request("GET_INVENTORY", NoMessage))
      c == Call(sess, prov, requests, out)
  IN  IF c.err # NoErr
      THEN Outcome(sess, NilData, c.err, c.sent, <<"Request", "return">>, FALSE)
      ELSE DecodeFirst(sess, c, "GetInventoryResponse", NoErr)

\* ----------------------------------------------------------- state machine

NoCall ==
  [op |-> "none", before |-> "", assignedBefore |-> {},
   lastFragmentBefore |-> "", tokenBefore |-> NoToken, loginErr |-> NoErr,
   out |-> [response |-> NilResponse, err |-> NoErr],
   data |-> NilData, err |-> NoErr, sent |-> <<>>, events |-> <<>>,
   panicked |-> FALSE]

\* The record of an operation op that started with s.url = before and the
\* provider's access token tokenBefore, whose
\* Login (Init only) returned loginErr, whose transport request (if it made
\* one) ended as out, and that ended as r.
CallRecord(op, loginErr, out, r) ==
  [op |-> op, before |-> s.url, assignedBefore |-> assigned,
   lastFragmentBefore |-> lastFragment, tokenBefore |-> provider.AccessToken,
   loginErr |-> loginErr,
   out |-> IF r.sent = <<>> THEN NoCall.out ELSE out,
   data |-> r.data, err |-> r.err, sent |-> r.sent, events |-> r.events,
   panicked |-> r.panicked]

\* The number of writes of s.url among the steps of an operation.
Writes(events) == Cardinality({k \in DOMAIN events : events[k] = "setURL"})

\* An Init that returned a nil error (its request got a response).
InitSucceeded(op, r) == op = "Init" /\ ~r.panicked /\ r.err = NoErr /\ r.sent # <<>>

\* The state every operation leaves: the Session and the bookkeeping.
Finish(op, loginErr, out, r) ==
  /\ s' = r.s
  /\ lastCall' = CallRecord(op, loginErr, out, r)
  /\ nCalls' = nCalls + 1
  /\ nWrites' = nWrites + Writes(r.events)
  /\ assigned' =
       IF InitSucceeded(op, r) THEN assigned \cup {out.response.ApiUrl}
       ELSE assigned
  /\ lastFragment' =
       IF InitSucceeded(op, r) THEN out.response.ApiUrl ELSE lastFragment
  /\ panicked' = r.panicked

\* The process is running (no panic has unwound it) and the caller has
\* operations left.
CanCall == ~panicked /\ nCalls < MaxCalls

Init ==
  /\ \E location \in Locations, debug \in BOOLEAN :
       s = NewSession("provider", location, debug)
  /\ \E name \in ProviderStrings :
       provider = [ProviderString |-> name, AccessToken |-> NoToken]
  /\ lastCall = NoCall
  /\ nCalls = 0
  /\ nWrites = 0
  /\ assigned = {}
  /\ lastFragment = ""
  /\ panicked = FALSE

\* Init building its envelope from the token the provider held before Login.
CallInit_TokenBeforeLogin ==
  /\ CanCall
  /\ \E loginErr \in {NoErr} \cup LoginErrors, token \in Tokens,
        out \in TransportOutcomes :
       /\ provider' = Login(provider, loginErr, token)
       /\ Finish("Init", loginErr, out,
                 SessionInit(s, provider, loginErr, out))

CallInit ==
  /\ CanCall
  /\ \E loginErr \in {NoErr} \cup LoginErrors, token \in Tokens,
        out \in TransportOutcomes :
       /\ provider' = Login(provider, loginErr, token)
       /\ Finish("Init", loginErr, out,
                 SessionInit(s, Login(provider, loginErr, token), loginErr, out))

CallAnnounce ==
  /\ CanCall
  /\ \E now \in Clock, out \in TransportOutcomes :
       Finish("Announce", NoErr, out, SessionAnnounce(s, provider, now, out))
  /\ UNCHANGED provider

CallGetPlayer ==
  /\ CanCall
  /\ \E out \in TransportOutcomes :
       Finish("GetPlayer", NoErr, out, SessionGetPlayer(s, provider, out))
  /\ UNCHANGED provider

CallGetInventory ==
  /\ CanCall
  /\ \E out \in TransportOutcomes :
       Finish("GetInventory", NoErr, out, SessionGetInventory(s, provider, out))
  /\ UNCHANGED provider

Next == CallInit \/ CallAnnounce \/ CallGetPlayer \/ CallGetInventory

Spec == Init /\ [][Next]_vars

\* The cell indexer over a grid of coordinates: a Session constructed at any
\* of them announces itself once.
GridInit ==
  /\ \E location \in GridLocations, debug \in BOOLEAN :
       s = NewSession("provider", location, debug)
  /\ \E name \in ProviderStrings :
       provider = [ProviderString |-> name, AccessToken |-> NoToken]
  /\ lastCall = NoCall
  /\ nCalls = 0
  /\ nWrites = 0
  /\ assigned = {}
  /\ lastFragment = ""
  /\ panicked = FALSE

AnnounceOnce == nCalls = 0 /\ CallAnnounce

GridSpec == GridInit /\ [][AnnounceOnce]_vars

\* ------------------------------------------------------------------ claims

\* The URL the endpoint rebinding format derives from a fragment.
BoundURL(fragment) == "https://" \o fragment \o "/rpc"

\* The most recent operation handed a request to the transport / got a
\* response from it / got an error from it / returned to its caller.
Requested == lastCall.sent # <<>>
TransportSucceeded == Requested /\ lastCall.out.err = NoErr
TransportFailed == Requested /\ lastCall.out.err # NoErr
Returned == lastCall.op # "none" /\ ~lastCall.panicked
LastInitSucceeded ==
  lastCall.op = "Init" /\ Returned /\ lastCall.err = NoErr

\* C1 as stated: while no Init has succeeded getURL() is the default URL;
\* right after an Init that succeeded with fragment f it is "https://f/rpc";
\* and every request sent after an Init succeeded with f targets that URL.
C1_Original ==
  /\ assigned = {} => getURL(s) = defaultURL
  /\ LastInitSucceeded => getURL(s) = BoundURL(lastCall.out.response.ApiUrl)
  /\ \A f \in lastCall.assignedBefore :
       \A k \in DOMAIN lastCall.sent : lastCall.sent[k].url = BoundURL(f)

\* C1 amended: while no Init has succeeded getURL() is the default URL;
\* right after an Init that succeeded with fragment f it is "https://f/rpc";
\* and every request sent from then until the next successful Init targets
\* that URL (the URL of the most recent successful Init, the default URL
\* when there is none).
C1_URLResolution ==
  /\ assigned = {} => getURL(s) = defaultURL
  /\ LastInitSucceeded => getURL(s) = BoundURL(lastCall.out.response.ApiUrl)
  /\ lastFragment # "" => getURL(s) = BoundURL(lastFragment)
  /\ \A k \in DOMAIN lastCall.sent :
       lastCall.sent[k].url =
         IF lastCall.lastFragmentBefore = "" THEN defaultURL
         ELSE BoundURL(lastCall.lastFragmentBefore)

\* A request sent by an operation other than Init after Init bound the
\* Session to abc123.
C1_Witness ==
  /\ lastCall.op = "GetPlayer"
  /\ lastCall.lastFragmentBefore = "abc123"
  /\ Requested
  /\ lastCall.sent[1].url = "https://abc123/rpc"

\* C2: an Init on a Bootstrapped Session whose login succeeds and whose
\* transport succeeds with an empty assigned endpoint returns the
\* binding-failure error and leaves the endpoint unset, getURL() the default.
C2_EmptyEndpointFailsInit ==
  ( /\ lastCall.op = "Init"
    /\ lastCall.before = ""
    /\ lastCall.loginErr = NoErr
    /\ TransportSucceeded
    /\ lastCall.out.response.ApiUrl = "" )
  => /\ Returned
     /\ lastCall.err = BindingError
     /\ lastCall.err # NoErr
     /\ s.url = ""
     /\ getURL(s) = defaultURL

\* An Init on a Bootstrapped Session that was answered without an endpoint.
C2_Witness ==
  /\ lastCall.op = "Init"
  /\ lastCall.before = ""
  /\ lastCall.loginErr = NoErr
  /\ TransportSucceeded
  /\ lastCall.out.response.ApiUrl = ""
  /\ lastCall.err = BindingError

\* C3: when Login fails, Init returns exactly the provider's error, sends
\* no transport request and does not write the endpoint.
C3_LoginFailureStopsInit ==
  (lastCall.op = "Init" /\ lastCall.loginErr # NoErr)
  => /\ Returned
     /\ lastCall.err = lastCall.loginErr
     /\ lastCall.sent = <<>>
     /\ s.url = lastCall.before

\* A failed Login on a Session that is already Bound.
C3_Witness ==
  /\ lastCall.op = "Init"
  /\ lastCall.loginErr \in LoginErrors
  /\ lastCall.err = lastCall.loginErr
  /\ lastCall.before # ""

\* C4 as stated: once the endpoint is set it stays non-empty, so getURL()
\* never again returns the default URL.
C4_Original ==
  [][s.url # "" => (s'.url # "" /\ getURL(s') # defaultURL)]_vars

\* C4 amended: once the endpoint is set it stays non-empty in every later
\* state, so getURL() never again falls back to the default URL: it returns
\* the stored endpoint.
C4_BoundIsAbsorbing ==
  [][s.url # "" => (s'.url # "" /\ getURL(s') = s'.url)]_vars

\* A Bound Session after a failed Init and after a failed Announce.
C4_Witness ==
  /\ s.url # ""
  /\ lastCall.before # ""
  /\ lastCall.op \in {"Init", "Announce"}
  /\ lastCall.err # NoErr

\* C5 as stated: the endpoint is written exactly once in the lifetime of a
\* Session; after the first successful Init nothing writes it again.
C5_Original == nWrites <= 1

\* C5 amended: the endpoint is written only by Init, exactly once by each
\* Init that succeeds and never by an operation that returns an error or by
\* Announce, GetPlayer or GetInventory; a further successful Init writes it
\* again.
C5_WrittenOncePerSuccessfulInit ==
  [][ /\ nWrites' - nWrites =
           IF lastCall'.op = "Init" /\ ~lastCall'.panicked
              /\ lastCall'.err = NoErr
           THEN 1 ELSE 0
      /\ s'.url # s.url =>
           (lastCall'.op = "Init" /\ ~lastCall'.panicked
            /\ lastCall'.err = NoErr) ]_vars

\* The second successful Init of a Session, with another fragment.
C5_Witness ==
  /\ nWrites = 2
  /\ LastInitSucceeded
  /\ lastCall.before # ""
  /\ s.url # lastCall.before

\* C6 as stated: every invocation of an operation performs exactly one
\* transport request.
C6_Original == lastCall.op # "none" => Len(lastCall.sent) = 1

\* The steps of an operation before position k.
StepsBefore(events, k) == {events[j] : j \in 1..(k - 1)}

\* C6 amended: every invocation of Announce, GetPlayer or GetInventory, and
\* every Init whose Login succeeds, performs exactly one transport request
\* (no retry after a failure) and returns only after it; an Init whose Login
\* fails performs none.
C6_OneRoundTrip ==
  lastCall.op # "none" =>
    /\ Len(lastCall.sent) =
         IF lastCall.op = "Init" /\ lastCall.loginErr # NoErr THEN 0 ELSE 1
    /\ \A k \in DOMAIN lastCall.events :
         (lastCall.events[k] = "return" /\ Requested)
           => "Request" \in StepsBefore(lastCall.events, k)

\* An operation whose single request failed.
C6_Witness ==
  /\ lastCall.op = "GetInventory"
  /\ TransportFailed
  /\ Len(lastCall.sent) = 1
  /\ lastCall.err # NoErr

\* C7: every operation returns normally to its caller, whatever the
\* transport's outcome.
C7_NeverAborts == ~panicked /\ ~lastCall.panicked

\* C8: an operation that returns an error leaves the endpoint as it was.
C8_ErrorLeavesEndpoint ==
  (Returned /\ lastCall.err # NoErr) => s.url = lastCall.before

\* A Bound Session whose later Init fails at the transport.
C8_Witness ==
  /\ lastCall.op = "Init"
  /\ lastCall.before = "https://abc123/rpc"
  /\ TransportFailed
  /\ lastCall.err # NoErr
  /\ s.url = "https://abc123/rpc"

\* C9: when the transport fails during Announce, Announce returns nil map
\* data and a RequestError that is not the transport's error.
C9_AnnounceHidesTransportError ==
  (lastCall.op = "Announce" /\ TransportFailed)
  => /\ Returned
     /\ lastCall.data = NilData
     /\ lastCall.err = RequestError
     /\ lastCall.err # lastCall.out.err
     /\ lastCall.err \notin TransportErrors

\* An Announce whose request the transport failed.
C9_Witness ==
  /\ lastCall.op = "Announce"
  /\ TransportFailed
  /\ lastCall.err = RequestError

\* C10: when the transport fails during Init, GetPlayer or GetInventory, the
\* operation returns exactly the transport's error and no decoded result.
C10_TransportErrorVerbatim ==
  (lastCall.op \in {"Init", "GetPlayer", "GetInventory"} /\ TransportFailed)
  => /\ Returned
     /\ lastCall.err = lastCall.out.err
     /\ lastCall.data = NilData

\* A GetPlayer whose request the transport failed.
C10_Witness ==
  /\ lastCall.op = "GetPlayer"
  /\ TransportFailed
  /\ lastCall.err \in TransportErrors
  /\ lastCall.data = NilData

\* C11: on transport success Announce returns the map data decoded from
\* result position 0 together with the classification of the envelope's
\* status code; the data is non-nil also when the classification is an error.
C11_AnnounceReturnsDataAndStatus ==
  (lastCall.op = "Announce" /\ TransportSucceeded)
  => /\ Returned
     /\ lastCall.err = GetErrorFromStatus(lastCall.out.response.StatusCode)
     /\ lastCall.data =
          Unmarshal(lastCall.out.response.Returns[1], "GetMapObjectsResponse")
     /\ lastCall.data # NilData

\* The request types of a batch, in order.
RequestTypes(requests) == [k \in DOMAIN requests |-> requests[k].RequestType]

\* The batch of the one request the most recent operation sent.
SentBatch == lastCall.sent[1].envelope.Requests

\* C12: for every coordinate, the batch Announce hands to the transport
\* holds exactly 5 sub-requests in the order GET_MAP_OBJECTS,
\* GET_HATCHED_EGGS, GET_INVENTORY, CHECK_AWARDED_BADGES, DOWNLOAD_SETTINGS.
C12_AnnounceBatch ==
  lastCall.op = "Announce" =>
    /\ Len(lastCall.sent) = 1
    /\ Len(SentBatch) = 5
    /\ RequestTypes(SentBatch) =
         <<"GET_MAP_OBJECTS", "GET_HATCHED_EGGS", "GET_INVENTORY",
           "CHECK_AWARDED_BADGES", "DOWNLOAD_SETTINGS">>

\* An Announce from a coordinate away from the origin.
C12_Witness ==
  /\ lastCall.op = "Announce"
  /\ s.location = [Lon |-> -40, Lat |-> 20, Alt |-> 35]
  /\ Len(SentBatch) = 5
  /\ TransportFailed

\* The level-15 cell c contains the coordinate.
ContainsCoordinate(c, location) ==
  LET leaf == CellIDFromLatLng(location.Lat, location.Lon)
      size == 2 ^ (30 - cellIDLevel)
  IN  /\ c.level = cellIDLevel
      /\ c.face = leaf.face
      /\ c.i % size = 0 /\ c.i <= leaf.i /\ leaf.i < c.i + size
      /\ c.j % size = 0 /\ c.j <= leaf.j /\ leaf.j < c.j + size

\* Cells a and b of one level share an edge.
EdgeAdjacent(a, b) ==
  LET size == 2 ^ (30 - a.level)
  IN  /\ a.level = b.level
      /\ a.face = b.face
      /\ \/ (a.j = b.j /\ (a.i - b.i = size \/ b.i - a.i = size))
         \/ (a.i = b.i /\ (a.j - b.j = size \/ b.j - a.j = size))

\* ids holds n pairwise-distinct cells: first the level-15 cell of the
\* coordinate, then n - 1 cells that each share an edge with it.
IsNeighbourhood(ids, location, n) ==
  /\ Len(ids) = n
  /\ \A k, m \in DOMAIN ids : k # m => ids[k] # ids[m]
  /\ ContainsCoordinate(ids[1], location)
  /\ \A k \in 2..Len(ids) : EdgeAdjacent(ids[1], ids[k])

\* C14 as stated: getCellIDs returns exactly 7 pairwise-distinct cells, the
\* level-15 cell of the coordinate first and then its 6 edge-adjacent
\* neighbours.
C14_Original ==
  lastCall.op = "Announce" =>
    /\ IsNeighbourhood(getCellIDs(s.location), s.location, 7)
    /\ IsNeighbourhood(SentBatch[1].RequestMessage.fields.CellId,
                       s.location, 7)

\* C14 amended: for any valid coordinate getCellIDs returns exactly 5
\* pairwise-distinct cells, the first (index 0) being the level-15 cell that
\* contains the coordinate and the remaining 4 being its edge-adjacent
\* neighbours at the same level; these are the cells Announce sends.
C14_FiveCells ==
  /\ IsNeighbourhood(getCellIDs(s.location), s.location, 5)
  /\ lastCall.op = "Announce" =>
       /\ IsNeighbourhood(SentBatch[1].RequestMessage.fields.CellId,
                          s.location, 5)
       /\ Len(SentBatch[1].RequestMessage.fields.SinceTimestampMs) = 5

\* An Announce that sent the five cells around a coordinate.
C14_Witness ==
  /\ lastCall.op = "Announce"
  /\ s.location.Lat = 40 /\ s.location.Lon = -1
  /\ Len(SentBatch[1].RequestMessage.fields.CellId) = 5
  /\ SentBatch[1].RequestMessage.fields.CellId[1].level = cellIDLevel

\* C13: whenever Init reaches the transport (its Login succeeded), the batch
\* holds exactly 5 sub-requests in the order GET_PLAYER, GET_HATCHED_EGGS,
\* GET_INVENTORY, CHECK_AWARDED_BADGES, DOWNLOAD_SETTINGS, the last carrying
\* the fixed settings-version hash, and the envelope's location is the
\* Session's coordinate.
C13_InitBatch ==
  (lastCall.op = "Init" /\ lastCall.loginErr = NoErr) =>
    /\ Len(lastCall.sent) = 1
    /\ Len(SentBatch) = 5
    /\ RequestTypes(SentBatch) =
         <<"GET_PLAYER", "GET_HATCHED_EGGS", "GET_INVENTORY",
           "CHECK_AWARDED_BADGES", "DOWNLOAD_SETTINGS">>
    /\ SentBatch[5].RequestMessage.message = "DownloadSettingsMessage"
    /\ SentBatch[5].RequestMessage.fields.Hash =
         "05daf51635c82611d1aac95c0b051d3ec088a930"
    /\ lastCall.sent[1].envelope.Longitude = s.location.Lon
    /\ lastCall.sent[1].envelope.Latitude = s.location.Lat
    /\ lastCall.sent[1].envelope.Altitude = s.location.Alt

\* An Init that reached the transport from the coordinate (2, 40, 35).
C13_Witness ==
  /\ lastCall.op = "Init"
  /\ lastCall.loginErr = NoErr
  /\ Requested
  /\ s.location = [Lon |-> 2, Lat |-> 40, Alt |-> 35]
  /\ lastCall.sent[1].envelope.Longitude = 2
  /\ lastCall.sent[1].envelope.Latitude = 40

\* C15: Announce, GetPlayer and GetInventory never change the endpoint; an
\* Init writes it only after its round trip (its own request goes to the URL
\* in force before the call); no operation changes the Session's coordinate,
\* auth-provider reference or debug flag.
C15_EndpointFrame ==
  [][ /\ lastCall'.op \in {"Announce", "GetPlayer", "GetInventory"}
           => s'.url = s.url
      /\ (lastCall'.op = "Init" /\ lastCall'.sent # <<>>)
           => \A k \in DOMAIN lastCall'.sent :
                lastCall'.sent[k].url = getURL(s)
      /\ \A k \in DOMAIN lastCall'.events :
           lastCall'.events[k] = "setURL"
             => "Request" \in StepsBefore(lastCall'.events, k)
      /\ s'.location = s.location
      /\ s'.provider = s.provider
      /\ s'.debug = s.debug ]_vars

\* The first successful Init: its request went to the default URL and the
\* Session is bound to abc123 afterwards.
C15_Witness ==
  /\ LastInitSucceeded
  /\ lastCall.before = ""
  /\ lastCall.sent[1].url = defaultURL
  /\ s.url = "https://abc123/rpc"
  /\ lastCall.events = <<"Login", "Request", "setURL", "return">>

\* C16: GetPlayer and GetInventory each send a batch of exactly one
\* sub-request (GET_PLAYER, GET_INVENTORY) and, on transport success with at
\* least one result payload, return the response decoded from result
\* position 0 with a nil error whatever the envelope's status code is.
C16_SingleRequestNoClassification ==
  /\ lastCall.op = "GetPlayer" =>
       /\ Len(lastCall.sent) = 1
       /\ RequestTypes(SentBatch) = <<"GET_PLAYER">>
       /\ (TransportSucceeded /\ Len(lastCall.out.response.Returns) >= 1) =>
            /\ Returned
            /\ lastCall.err = NoErr
            /\ lastCall.data = [type |-> "GetPlayerResponse",
                                payload |-> lastCall.out.response.Returns[1]]
  /\ lastCall.op = "GetInventory" =>
       /\ Len(lastCall.sent) = 1
       /\ RequestTypes(SentBatch) = <<"GET_INVENTORY">>
       /\ (TransportSucceeded /\ Len(lastCall.out.response.Returns) >= 1) =>
            /\ Returned
            /\ lastCall.err = NoErr
            /\ lastCall.data = [type |-> "GetInventoryResponse",
                                payload |-> lastCall.out.response.Returns[1]]

\* A GetPlayer answered with a status code that Announce reports as an
\* error, and returning success.
C16_Witness ==
  /\ lastCall.op = "GetPlayer"
  /\ TransportSucceeded
  /\ lastCall.out.response.StatusCode = 102
  /\ GetErrorFromStatus(lastCall.out.response.StatusCode) # NoErr
  /\ lastCall.out.response.Returns = <<"payload_a">>
  /\ lastCall.err = NoErr
  /\ lastCall.data.payload = "payload_a"

\* The provider identity and access token in the envelope of a request.
SentProvider(k) == lastCall.sent[k].envelope.AuthInfo.Provider
SentToken(k) == lastCall.sent[k].envelope.AuthInfo.Token.Contents

\* C17: the Session holds no copy of the auth info; the provider identity
\* and access token in the envelope of every request are the provider's at
\* the moment of the call: the token a Login of the same Init just obtained,
\* otherwise the token the provider held when the operation started (the
\* provider's initial one when no Login has happened).
C17_AuthInfoAtCallTime ==
  /\ DOMAIN s = {"location", "url", "rpc", "provider", "debug"}
  /\ \A k \in DOMAIN lastCall.sent :
       /\ SentProvider(k) = provider.ProviderString
       /\ SentToken(k) = provider.AccessToken
       /\ lastCall.op # "Init" => SentToken(k) = lastCall.tokenBefore

\* An Init on a provider holding token_1 whose Login obtained token_2 and
\* whose request carries token_2.
C17_Witness ==
  /\ lastCall.op = "Init"
  /\ lastCall.tokenBefore = "token_1"
  /\ Requested
  /\ SentToken(1) = "token_2"
  /\ provider.AccessToken = "token_2"

\* C18: a Session becomes Bound only by an Init whose Login succeeded and
\* whose transport request, made after that Login, succeeded with a
\* non-empty assigned endpoint; within an Init, Login precedes the request;
\* Announce, GetPlayer and GetInventory never bind a Bootstrapped Session.
C18_BoundOnlyBySuccessfulInit ==
  [][ /\ (s.url = "" /\ s'.url # "") =>
           /\ lastCall'.op = "Init"
           /\ lastCall'.loginErr = NoErr
           /\ Len(lastCall'.sent) = 1
           /\ lastCall'.out.err = NoErr
           /\ lastCall'.out.response.ApiUrl # ""
           /\ lastCall'.err = NoErr
           /\ s'.url = BoundURL(lastCall'.out.response.ApiUrl)
      /\ lastCall'.op = "Init" =>
           \A k \in DOMAIN lastCall'.events :
             lastCall'.events[k] = "Request"
               => "Login" \in StepsBefore(lastCall'.events, k)
      /\ (s'.url # "") => (assigned' # {}) ]_vars

\* A Session bound by its first Init, to the fragment
\* pgorelease.nianticlabs.com/plfe.
C18_Witness ==
  /\ LastInitSucceeded
  /\ lastCall.before = ""
  /\ lastCall.loginErr = NoErr
  /\ lastCall.out.response.ApiUrl = "pgorelease.nianticlabs.com/plfe"
  /\ s.url # ""
  /\ assigned = {"pgorelease.nianticlabs.com/plfe"}

\* C19 as stated: when an Init succeeds on a Session that a successful Init
\* with fragment f1 bound, its request is sent to "https://f1/rpc", which is
\* not the default URL, and afterwards getURL() is "https://f2/rpc" for the
\* fragment f2 it was assigned.
C19_Original ==
  (LastInitSucceeded /\ lastCall.lastFragmentBefore # "") =>
    /\ lastCall.sent[1].url = BoundURL(lastCall.lastFragmentBefore)
    /\ lastCall.sent[1].url # defaultURL
    /\ getURL(s) = BoundURL(lastCall.out.response.ApiUrl)

\* C19 amended: when an Init succeeds on a Session whose most recent
\* successful Init was assigned f1, its request is sent to "https://f1/rpc",
\* the stored endpoint (the default URL only if f1 is
\* pgorelease.nianticlabs.com/plfe), and afterwards getURL() is
\* "https://f2/rpc" for the fragment f2 it was assigned; the URL in force
\* always derives from the most recent successful Init.
C19_Rebinding ==
  /\ (LastInitSucceeded /\ lastCall.lastFragmentBefore # "") =>
       /\ lastCall.sent[1].url = BoundURL(lastCall.lastFragmentBefore)
       /\ lastCall.sent[1].url = lastCall.before
       /\ lastCall.lastFragmentBefore # "pgorelease.nianticlabs.com/plfe"
            => lastCall.sent[1].url # defaultURL
       /\ getURL(s) = BoundURL(lastCall.out.response.ApiUrl)
       /\ lastFragment = lastCall.out.response.ApiUrl
  /\ getURL(s) = IF lastFragment = "" THEN defaultURL ELSE BoundURL(lastFragment)

\* A second successful Init that moved the Session from abc123 to another
\* fragment.
C19_Witness ==
  /\ LastInitSucceeded
  /\ lastCall.lastFragmentBefore = "abc123"
  /\ lastCall.sent[1].url = "https://abc123/rpc"
  /\ lastFragment # "abc123"
  /\ getURL(s) = BoundURL(lastFragment)

====
